---- MODULE Spec2Model ----
(***************************************************************************)
(* DPERS (src/src/dpers.py): covariance estimation for a dataset with      *)
(* missing entries.  DPERS.fit computes the per-feature variances, calls   *)
(* DPERS.find_cov_ij for every feature pair i < j, mirrors the upper       *)
(* triangle and halves the diagonal.                                       *)
(*                                                                         *)
(* Numbers.  A float is modelled as a pair <<n, d>>: d > 0 is the exact    *)
(* rational n/d in lowest terms, <<0,0>> is NaN, <<1,0>> is +inf and       *)
(* <<-1,0>> is -inf.  Arithmetic is exact (rounding is not modelled) and   *)
(* follows IEEE-754 for NaN and the infinities.                            *)
(*                                                                         *)
(* Inputs.  np.roots is modelled on the polynomials whose roots have       *)
(* rational real parts; the datasets of the checked instances are those    *)
(* on which every pairwise computation is of that kind (TableExact).       *)
(***************************************************************************)
EXTENDS Integers, Sequences, FiniteSets, TLC

----------------------------------------------------------------------------
(* Bounds of the checked instances.                                        *)

\* rows of a dataset of the pairwise-solver instance (SpecPair)
NRows == 4
\* dataset values of the pairwise-solver instance: -NegVal..MaxVal, and NaN
NegVal == 1
MaxVal == 2
\* features of a dataset of the assembly instance (SpecAsm): 1..NFeat
NFeat == 3
\* rows of a dataset of the assembly instance
NRowsAsm == 3
\* dataset values of the assembly and object instances: 0..SmallVal, and NaN
SmallVal == 1
\* features of a dataset of the object instance (Spec): 1..NFeatObj
NFeatObj == 2
\* rows of a dataset of the object instance
NRowsObj == 2
\* fit calls made on the DPERS object of the object instance
MaxCalls == 3

----------------------------------------------------------------------------
(* Float values and their arithmetic.                                      *)

NaN == <<0, 0>>
PosInf == <<1, 0>>
NegInf == <<-1, 0>>
Zero == <<0, 1>>

Abs(x) == IF x < 0 THEN -x ELSE x
Sgn(x) == IF x < 0 THEN -1 ELSE IF x > 0 THEN 1 ELSE 0

RECURSIVE Gcd(_, _)
Gcd(a, b) == IF b = 0 THEN a ELSE Gcd(b, a % b)

\* the float n/d, d # 0, in lowest terms
Frac(n, d) ==
  LET g == Gcd(Abs(n), Abs(d))
  IN  IF d > 0 THEN <<n \div g, d \div g>> ELSE <<(-n) \div g, (-d) \div g>>

Q(n) == <<n, 1>>
IsNaN(x) == x = NaN
IsInf(x) == x[2] = 0 /\ x[1] # 0
IsFinite(x) == x[2] > 0

FNeg(x) == <<-x[1], x[2]>>

FAdd(x, y) ==
  IF IsNaN(x) \/ IsNaN(y) THEN NaN
  ELSE IF IsInf(x) THEN (IF IsInf(y) /\ y # x THEN NaN ELSE x)
  ELSE IF IsInf(y) THEN y
  ELSE LET g == Gcd(x[2], y[2])
       IN  Frac(x[1] * (y[2] \div g) + y[1] * (x[2] \div g), (x[2] \div g) * y[2])

FSub(x, y) == FAdd(x, FNeg(y))

FMul(x, y) ==
  IF IsNaN(x) \/ IsNaN(y) THEN NaN
  ELSE IF IsInf(x) \/ IsInf(y)
       THEN (IF x[1] = 0 \/ y[1] = 0 THEN NaN ELSE <<Sgn(x[1]) * Sgn(y[1]), 0>>)
  ELSE IF x[1] = 0 \/ y[1] = 0 THEN Zero
  ELSE LET g == Gcd(Abs(x[1]), y[2])
           h == Gcd(Abs(y[1]), x[2])
       IN  <<(x[1] \div g) * (y[1] \div h), (x[2] \div h) * (y[2] \div g)>>

FDiv(x, y) ==
  IF IsNaN(x) \/ IsNaN(y) THEN NaN
  ELSE IF IsInf(y) THEN (IF IsInf(x) THEN NaN ELSE Zero)
  ELSE IF IsInf(x) THEN (IF y[1] < 0 THEN FNeg(x) ELSE x)
  ELSE IF y[1] = 0 THEN (IF x[1] = 0 THEN NaN ELSE <<Sgn(x[1]), 0>>)
  ELSE FMul(x, IF y[1] > 0 THEN <<y[2], y[1]>> ELSE <<-y[2], -y[1]>>)

Sq(x) == FMul(x, x)

\* IEEE comparisons: every comparison with NaN is false, except !=
FEq(x, y) == ~IsNaN(x) /\ ~IsNaN(y) /\ x = y
FNe(x, y) == ~FEq(x, y)
FLt(x, y) ==
  /\ ~IsNaN(x) /\ ~IsNaN(y) /\ x # y
  /\ IF IsInf(x) THEN x = NegInf
     ELSE IF IsInf(y) THEN y = PosInf
     ELSE LET g == Gcd(x[2], y[2])
          IN  x[1] * (y[2] \div g) < y[1] * (x[2] \div g)
FGt(x, y) == FLt(y, x)

----------------------------------------------------------------------------
(* Sequences of floats.                                                    *)

RECURSIVE FSum(_)
FSum(xs) == IF xs = <<>> THEN Zero ELSE FAdd(Head(xs), FSum(Tail(xs)))

NotNaN(x) == ~IsNaN(x)

RECURSIVE SumSqDev(_, _)
SumSqDev(xs, mean) ==
  IF xs = <<>> THEN Zero
  ELSE FAdd(Sq(FSub(Head(xs), mean)), SumSqDev(Tail(xs), mean))

\* np.var of a one-dimensional array: the mean of the squared deviations
\* from the mean (ddof = 0); the mean of an empty array is 0/0 = NaN
VarAbout(xs, mean) == FDiv(SumSqDev(xs, mean), Q(Len(xs)))
NpVar(xs) == VarAbout(xs, FDiv(FSum(xs), Q(Len(xs))))

Min(A) == CHOOSE a \in A : \A b \in A : a <= b
Max(A) == CHOOSE a \in A : \A b \in A : a >= b

----------------------------------------------------------------------------
(* np.roots followed by np.real.                                           *)

\* floor of the square root of n >= 0
RECURSIVE ISqrtFrom(_, _)
ISqrtFrom(n, x) ==
  IF (x + n \div x) \div 2 >= x THEN x ELSE ISqrtFrom(n, (x + n \div x) \div 2)
ISqrt(n) == IF n < 2 THEN n ELSE ISqrtFrom(n, n)
IsSquare(n) == n >= 0 /\ ISqrt(n) * ISqrt(n) = n

Lcm(a, b) == (a \div Gcd(a, b)) * b
\* the divisors of n >= 1: each d up to the square root, and n \div d
DivisorsUpTo(n, s) == UNION {{d, n \div d} : d \in {e \in 1..s : n % e = 0}}
Divisors(n) == DivisorsUpTo(n, ISqrt(n))

\* real parts of the roots of a*r^2 + b*r + c (a # 0), from -b/(2a) and the
\* discriminant D; <<>> when the roots are real and irrational
QuadPair(mid, half) == <<FSub(mid, half), FAdd(mid, half)>>
QuadFrom(a, mid, D) ==
  IF D[1] < 0 THEN <<mid, mid>>
  ELSE IF IsSquare(D[1]) /\ IsSquare(D[2])
       THEN QuadPair(mid, FDiv(<<ISqrt(D[1]), ISqrt(D[2])>>, FMul(Q(2), a)))
  ELSE <<>>
QuadRealParts(a, b, c) ==
  QuadFrom(a, FDiv(FNeg(b), FMul(Q(2), a)), FSub(Sq(b), FMul(Q(4), FMul(a, c))))

\* the integer polynomial, in lowest terms, with the roots of the rational
\* polynomial p
RECURSIVE DenLcm(_)
DenLcm(p) == IF p = <<>> THEN 1 ELSE Lcm(Head(p)[2], DenLcm(Tail(p)))
RECURSIVE NumGcd(_)
NumGcd(A) == IF A = <<>> THEN 0 ELSE Gcd(Abs(Head(A)), NumGcd(Tail(A)))
Scaled(p, l) == [n \in 1..Len(p) |-> p[n][1] * (l \div p[n][2])]
Reduced(A, g) == [n \in 1..Len(A) |-> A[n] \div g]
IntOf(A) == Reduced(A, NumGcd(A))
IntCoef(p) == IntOf(Scaled(p, DenLcm(p)))

\* the value of the polynomial p (highest power first) at r
RECURSIVE Horner(_, _, _)
Horner(p, r, acc) ==
  IF p = <<>> THEN acc ELSE Horner(Tail(p), r, FAdd(FMul(acc, r), Head(p)))
PolyAt(p, r) == Horner(p, r, Zero)

\* B[1]*u^3 + B[2]*u^2*v + B[3]*u*v^2 + B[4]*v^3 modulo M, without forming
\* the large products
CubicModWith(B, a, b, a2, b2, M) ==
  ( (B[1] % M) * ((a2 * a) % M) + (B[2] % M) * ((a2 * b) % M)
  + (B[3] % M) * ((a * b2) % M) + (B[4] % M) * ((b2 * b) % M) ) % M
CubicMod(B, u, v, M) ==
  CubicModWith(B, u % M, v % M, ((u % M) * (u % M)) % M, ((v % M) * (v % M)) % M, M)

\* a rational root of the cubic p (p[1] # 0, p[4] # 0), NaN when it has
\* none: a root u/v in lowest terms has u | B[4] and v | B[1] for the integer
\* polynomial B of p; candidates are screened modulo two primes and
\* confirmed exactly
RootIn(cand) == IF cand = {} THEN NaN ELSE CHOOSE r \in cand : TRUE
Screened(B, U, V) ==
  {c \in {<<s * u, v>> : s \in {-1, 1}, u \in U, v \in V} :
     CubicMod(B, c[1], c[2], 4093) = 0 /\ CubicMod(B, c[1], c[2], 4099) = 0}
RationalRootOf(p, B) ==
  RootIn({r \in {Frac(c[1], c[2]) : c \in Screened(B, Divisors(Abs(B[4])),
                                                   Divisors(Abs(B[1])))} :
            PolyAt(p, r) = Zero})
CubicRationalRoot(p) == RationalRootOf(p, IntCoef(p))

\* real parts of the roots of the cubic p: a rational root r1, and the roots
\* of the quotient p[1]*r^2 + b*r + c; <<>> when one is irrational
CubicJoin(r1, qs) == IF qs = <<>> THEN <<>> ELSE <<r1>> \o qs
CubicQuotient(p, r1, b) ==
  CubicJoin(r1, QuadRealParts(p[1], b, FAdd(p[3], FMul(b, r1))))
CubicFrom(p, r1) ==
  IF IsNaN(r1) THEN <<>> ELSE CubicQuotient(p, r1, FAdd(p[2], FMul(p[1], r1)))
CubicRealParts(p) == CubicFrom(p, CubicRationalRoot(p))

NonZeroIdx(p) == {n \in 1..Len(p) : p[n] # Zero}

\* The roots of the polynomial q without its leading and trailing zeros,
\* and tz roots 0 for the trailing zeros.
\*   err = "LinAlgError": the companion matrix holds a NaN and eigvals raises
\*   exact = FALSE: a real part is irrational (outside the checked inputs)
\*   eig: the real parts of the eigenvalues of the companion matrix, which
\*        np.roots returns in the order of the eigenvalue routine
\*   zeros: the number of roots 0 that np.roots appends after them
RootsResult(rp, tz) ==
  [err |-> "", exact |-> rp # <<>>, eig |-> rp, zeros |-> tz]
RootsStripped(q, tz) ==
  IF Len(q) = 1 THEN [err |-> "", exact |-> TRUE, eig |-> <<>>, zeros |-> tz]
  ELSE IF \E n \in 1..Len(q) : ~IsFinite(q[n])
       THEN [err |-> "LinAlgError", exact |-> TRUE, eig |-> <<>>, zeros |-> 0]
  ELSE IF Len(q) = 2 THEN RootsResult(<<FDiv(FNeg(q[2]), q[1])>>, tz)
  ELSE IF Len(q) = 3 THEN RootsResult(QuadRealParts(q[1], q[2], q[3]), tz)
  ELSE RootsResult(CubicRealParts(q), tz)
RootsBetween(p, lo, hi) == RootsStripped(SubSeq(p, lo, hi), Len(p) - hi)

\* np.real(np.roots(p)), p given highest power first
Roots(p) ==
  IF NonZeroIdx(p) = {} THEN [err |-> "", exact |-> TRUE, eig |-> <<>>, zeros |-> 0]
  ELSE RootsBetween(p, Min(NonZeroIdx(p)), Max(NonZeroIdx(p)))

----------------------------------------------------------------------------
(* The objective of find_cov_ij and its argmax.                            *)

\* Bounds of the natural logarithm for x > 1, used to order two objective
\* values exactly:  LnLow(x) < ln x < LnHigh(x).
LnLowOf(t) == FDiv(FMul(Q(2), t), FAdd(Q(2), t))
LnLow(x) == LnLowOf(FSub(x, Q(1)))
LnHighOf(t) == FDiv(FMul(t, FAdd(Q(6), t)), FAdd(Q(6), FMul(Q(4), t)))
LnHigh(x) == LnHighOf(FSub(x, Q(1)))

\* the sign of ln(x) - y for finite x > 0 and y; 2 when the bounds above
\* do not settle it
Flip(c) == IF c = 2 THEN 2 ELSE -c
RECURSIVE LnCmp(_, _)
LnCmp(x, y) ==
  IF x = Q(1) THEN -Sgn(y[1])
  ELSE IF FLt(x, Q(1)) THEN Flip(LnCmp(FDiv(Q(1), x), FNeg(y)))
  ELSE IF y[1] <= 0 THEN 1
  ELSE IF ~FLt(LnLow(x), y) THEN 1
  ELSE IF ~FLt(y, LnHigh(x)) THEN -1
  ELSE 2

\* One objective value -m*ln(scond) - rest (lines 115-119).  The logarithm
\* is taken where scond > 0 and is -inf elsewhere.
\*   k = "fin": scond > 0 and the value is -m*ln(s) - q
\*   k = "inf": the value is +inf;  k = "nan": the value is NaN
EtaMasked(v) == [k |-> IF IsNaN(v) THEN "nan" ELSE "inf", s |-> Zero, q |-> Zero]
Eta(m, scond, rest) ==
  IF FGt(scond, Zero) THEN [k |-> "fin", s |-> scond, q |-> rest]
  ELSE EtaMasked(FSub(FMul(FNeg(Q(m)), NegInf), rest))

\* the order of two objective values that are not NaN: 1 when a > b,
\* -1 when a < b, 0 when equal, 2 when not settled
EtaCmp(a, b, m) ==
  IF a.k = "inf" THEN (IF b.k = "inf" THEN 0 ELSE 1)
  ELSE IF b.k = "inf" THEN -1
  ELSE LnCmp(FDiv(b.s, a.s), FDiv(FSub(a.q, b.q), Q(m)))

\* an argmax that returns the last candidate
ArgLast(etas, neig, m) == {Len(etas)}

\* np.argmax returns the first NaN if there is one, else the first maximum.
\* The first neig candidates come in the order of the eigenvalue routine,
\* which the model leaves open: any of the best among them may be the first.
\* The roots 0 that np.roots appends come after them, in place.
Nans(etas) == {n \in 1..Len(etas) : etas[n].k = "nan"}
Maxs(etas, m) ==
  {n \in 1..Len(etas) : \A l \in 1..Len(etas) : EtaCmp(etas[l], etas[n], m) # 1}
FirstAmong(best, neig) ==
  IF best \cap (1..neig) # {} THEN best \cap (1..neig) ELSE {Min(best)}
ArgMax(etas, neig, m) ==
  FirstAmong(IF Nans(etas) # {} THEN Nans(etas) ELSE Maxs(etas, m), neig)

----------------------------------------------------------------------------
(* DPERS.find_cov_ij                                                       *)

RowHasNaN(row) == \E c \in 1..Len(row) : IsNaN(row[c])
RowAllNaN(row) == \A c \in 1..Len(row) : IsNaN(row[c])
RowComplete(row) == ~RowHasNaN(row)
RowNotAllNaN(row) == ~RowAllNaN(row)

Column(rows, c) == [n \in 1..Len(rows) |-> rows[n][c]]

\* np.sum(rows[:, a] * rows[:, b])
RECURSIVE SumProd(_, _, _)
SumProd(rows, a, b) ==
  IF rows = <<>> THEN Zero
  ELSE FAdd(FMul(Head(rows)[a], Head(rows)[b]), SumProd(Tail(rows), a, b))

\* lines 103-108: the coefficients, highest power first
Coef(m, s11, s22, s12, S_ii, S_jj) ==
  << FNeg(Q(m)),
     s12,
     FSub(FSub(FMul(FMul(Q(m), S_ii), S_jj), FMul(s22, S_ii)), FMul(s11, S_jj)),
     FMul(FMul(s12, S_ii), S_jj) >>

\* line 113
Scond(r, S_ii, S_jj) == FSub(S_jj, FDiv(Sq(r), S_ii))

\* line 119: (S_jj - 2 * r / S_ii * s12 + r**2 / S_ii**2 * s11) / scond
Rest(r, scond, s11, s12, S_ii, S_jj) ==
  FDiv(FAdd(FSub(S_jj, FMul(FDiv(FMul(Q(2), r), S_ii), s12)),
            FMul(FDiv(Sq(r), Sq(S_ii)), s11)),
       scond)

EtaAt(r, scond, m, s11, s12, S_ii, S_jj) ==
  Eta(m, scond, Rest(r, scond, s11, s12, S_ii, S_jj))
EtaOf(r, m, s11, s12, S_ii, S_jj) ==
  EtaAt(r, Scond(r, S_ii, S_jj), m, s11, s12, S_ii, S_jj)

\* the roots in the order of np.roots up to the order of the first neig
AllRoots(rts) == rts.eig \o [n \in 1..rts.zeros |-> Zero]

\* lines 110-119: the candidates and their objective values
CovOfRoots(rts, roots, m, s11, s12, S_ii, S_jj) ==
  [m |-> m, err |-> rts.err, exact |-> rts.exact, roots |-> roots,
   neig |-> Len(rts.eig),
   etas |-> [n \in 1..Len(roots) |-> EtaOf(roots[n], m, s11, s12, S_ii, S_jj)]]
CovOfSums(m, s11, s22, s12, S_ii, S_jj) ==
  CovOfRoots(Roots(Coef(m, s11, s22, s12, S_ii, S_jj)),
             AllRoots(Roots(Coef(m, s11, s22, s12, S_ii, S_jj))),
             m, s11, s12, S_ii, S_jj)

\* lines 89-99: the jointly observed rows and their sums
CovOfComplete(complt_X, S_ii, S_jj) ==
  CovOfSums(Len(complt_X), SumProd(complt_X, 1, 1), SumProd(complt_X, 2, 2),
            SumProd(complt_X, 1, 2), S_ii, S_jj)
CovParts(X_ij, S_ii, S_jj) == CovOfComplete(SelectSeq(X_ij, RowComplete), S_ii, S_jj)

\* line 120.  err = "": find_cov_ij returns one of vals (see ArgMax);
\* otherwise the exception it raises: LinAlgError from np.roots, ValueError
\* from np.argmax of an empty array.
CovResult(c) ==
  IF c.err # "" THEN [err |-> c.err, vals |-> {}, m |-> c.m, roots |-> c.roots]
  ELSE IF c.roots = <<>>
       THEN [err |-> "ValueError", vals |-> {}, m |-> c.m, roots |-> c.roots]
  ELSE [err |-> "", vals |-> {c.roots[n] : n \in ArgMax(c.etas, c.neig, c.m)},
        m |-> c.m, roots |-> c.roots]
find_cov_ij(X_ij, S_ii, S_jj) == CovResult(CovParts(X_ij, S_ii, S_jj))

\* the candidates of the pair are rationals and their objective values are
\* ordered by the logarithm bounds: the pair is computed exactly
PartsExact(c) ==
  /\ c.exact
  /\ \A a, b \in 1..Len(c.etas) :
       (c.etas[a].k # "nan" /\ c.etas[b].k # "nan")
         => EtaCmp(c.etas[a], c.etas[b], c.m) # 2
PairExact(X_ij, S_ii, S_jj) == PartsExact(CovParts(X_ij, S_ii, S_jj))

----------------------------------------------------------------------------
(* Arrays.  An ndarray is [ndim, a]: for ndim = 2, a is the sequence of    *)
(* its rows (n >= 1 rows of p >= 1 floats).  A matrix is a sequence of     *)
(* rows too.  None is modelled by an array of no dimension.                *)

None == [ndim |-> -1, a |-> <<>>]
NoMatrix == <<>>

NumRows(X) == Len(X.a)
NumCols(X) == Len(X.a[1])

\* X.astype(np.float64): a new array with the same contents
AsType(X) == [ndim |-> X.ndim, a |-> X.a]

\* the test of line 32 that fails on an input of another dimension
IsTableLoose(X) == X.ndim >= 2
\* line 32: isinstance(X, np.ndarray) and np.ndim(X) == 2
IsTable(X) == X.ndim = 2

SetCell(M, r, c, v) == [M EXCEPT ![r][c] = v]

\* lines 41-43: the variance of column i over its entries that are not NaN
ColumnVariance(X, i) == NpVar(SelectSeq(Column(X.a, i), NotNaN))

\* list(zip(*np.triu_indices(p, 1))): the pairs i < j, row by row
RECURSIVE UpperFrom(_, _, _)
UpperFrom(p, a, b) ==
  IF a >= p THEN <<>>
  ELSE IF b > p THEN UpperFrom(p, a + 1, a + 2)
  ELSE <<<<a, b>>>> \o UpperFrom(p, a, b + 1)
UpperIdx(p) == UpperFrom(p, 1, 2)

\* a pair loop that stops after its first turn
PairsDoneEarly(n, npairs) == TRUE
\* line 50: the pair loop ends after the last pair of upper_idx
PairsDone(n, npairs) == n >= npairs

\* lines 51-55: the two columns, without the rows where both are NaN
PairRows(X, a, b) ==
  SelectSeq([r \in 1..NumRows(X) |-> <<X.a[r][a], X.a[r][b]>>], RowNotAllNaN)

\* line 58: (S_ii != 0) and (S_jj != 0)
BothNonZero(S_ii, S_jj) == FNe(S_ii, Zero) /\ FNe(S_jj, Zero)

\* lines 57-61: what the turn for the pair (a, b) stores at M[a, b] (one of
\* vals), or the exception of the solver; called tells whether find_cov_ij
\* was called
Called(c) == [err |-> c.err, vals |-> c.vals, m |-> c.m, roots |-> c.roots,
              called |-> TRUE]
PairCellOf(X_ij, S_ii, S_jj) ==
  IF BothNonZero(S_ii, S_jj)
  THEN Called(find_cov_ij(X_ij, S_ii, S_jj))
  ELSE [err |-> "", vals |-> {NaN}, m |-> 0, roots |-> <<>>, called |-> FALSE]
PairCell(X, M, a, b) == PairCellOf(PairRows(X, a, b), M[a][a], M[b][b])

\* a mirroring that leaves the lower triangle as it is
KeepUpper(M) == M
\* line 63: S + S.T
AddTranspose(M) ==
  [r \in 1..Len(M) |-> [c \in 1..Len(M) |-> FAdd(M[r][c], M[c][r])]]

\* a halving loop that leaves the diagonal as it is
KeepCell(M, a) == M
\* line 67: S[i,i] * .5
HalveCell(M, a) == SetCell(M, a, a, FMul(M[a][a], <<1, 2>>))

\* every pair of the dataset is computed exactly (see PairExact)
TableExactWith(X, v) ==
  \A a, b \in 1..Len(v) :
    (a < b /\ BothNonZero(v[a], v[b])) => PairExact(PairRows(X, a, b), v[a], v[b])
TableExact(X) == TableExactWith(X, [c \in 1..NumCols(X) |-> ColumnVariance(X, c)])

----------------------------------------------------------------------------
(* The inputs of the checked instances.  The rows of a dataset are taken   *)
(* in one order only: every sum over the rows is the same in any order.    *)

\* the values lo..hi and NaN, numbered 0..hi-lo+1
NumVals(lo, hi) == hi - lo + 2
Value(code, lo, hi) == IF code = hi - lo + 1 THEN NaN ELSE Q(lo + code)

RECURSIVE Pow(_, _)
Pow(b, e) == IF e = 0 THEN 1 ELSE b * Pow(b, e - 1)

\* the row of p values numbered code, 0 <= code < NumVals^p
RowOf(code, p, lo, hi) ==
  [c \in 1..p |-> Value((code \div Pow(NumVals(lo, hi), c - 1)) % NumVals(lo, hi), lo, hi)]

\* the nondecreasing sequences of n row numbers in from..last
RECURSIVE SortedCodes(_, _, _)
SortedCodes(n, from, last) ==
  IF n = 0 THEN {<<>>}
  ELSE UNION {{<<c>> \o t : t \in SortedCodes(n - 1, c, last)} : c \in from..last}

\* the n-by-p tables over lo..hi and NaN
Tables(n, p, lo, hi) ==
  {[ndim |-> 2, a |-> [r \in 1..n |-> RowOf(s[r], p, lo, hi)]] :
     s \in SortedCodes(n, 0, Pow(NumVals(lo, hi), p) - 1)}

\* arrays that are not two-dimensional: a vector and a cube of one entry
\* (the nesting of the entry is not modelled)
NonTables == {[ndim |-> 1, a |-> <<<<Q(1)>>>>], [ndim |-> 3, a |-> <<<<Q(1)>>>>]}

\* the n-row tables of pmin..pmax columns over lo..hi and NaN
RECURSIVE TablesBetween(_, _, _, _, _)
TablesBetween(n, pmin, pmax, lo, hi) ==
  IF pmin > pmax THEN {}
  ELSE Tables(n, pmin, lo, hi) \cup TablesBetween(n, pmin + 1, pmax, lo, hi)

\* the inputs of an instance: the tables whose pairs are computed exactly,
\* and the arrays that are not tables
Inputs(n, pmin, pmax, lo, hi) ==
  {x \in TablesBetween(n, pmin, pmax, lo, hi) \cup NonTables :
     x \in NonTables \/ TableExact(x)}

----------------------------------------------------------------------------
(* The state: one DPERS object, the fit call in progress, and the record   *)
(* of the calls made.                                                      *)

VARIABLES
  Xtrain,   \* self.Xtrain
  cov,      \* self.cov
  pc,       \* where the fit call in progress stands; "idle" between calls
  arg,      \* the caller's array passed to the call in progress
  X,        \* fit's local X
  S,        \* fit's local S
  i,        \* index of the variance loop and of the halving loop
  k,        \* index of the pair loop in upper_idx
  eig,      \* the choices the eigenvalue routine has made so far: pairs of
            \* <<the arguments of find_cov_ij, the value it returned>>
  pre,      \* Xtrain, cov and the argument when the call in progress started
  hist,     \* the finished calls: argument before and after, exception, result
  wr,       \* the cells the pair loop has written in this call, in order
  steps,    \* the assembly steps taken in this call, in order
  solved    \* the find_cov_ij calls made in this call, in order

vars == <<Xtrain, cov, pc, arg, X, S, i, k, eig, pre, hist, wr, steps, solved>>

\* a matrix that is taken over from the previous call when it fits
ZerosStale(p) ==
  IF Len(cov) = p THEN cov ELSE [r \in 1..p |-> [c \in 1..p |-> Zero]]
\* line 37: np.zeros((p, p))
Zeros(p) == [r \in 1..p |-> [c \in 1..p |-> Zero]]

Init ==
  /\ Xtrain = None
  /\ cov = NoMatrix
  /\ pc = "idle"
  /\ arg = None
  /\ X = None
  /\ S = NoMatrix
  /\ i = 0
  /\ k = 0
  /\ eig = {}
  /\ pre = [Xtrain |-> None, cov |-> NoMatrix, arg |-> None]
  /\ hist = <<>>
  /\ wr = <<>>
  /\ steps = <<>>
  /\ solved = <<>>

\* the call ends: by an exception (err # "") or by returning val
Finish(err, val) ==
  /\ pc' = "idle"
  /\ hist' = Append(hist, [arg |-> pre.arg, after |-> arg, err |-> err, val |-> val,
                           pre |-> <<pre.Xtrain, pre.cov>>, post |-> <<Xtrain, cov>>,
                           steps |-> steps])

\* fit(x) is called; line 29
Call(inputs, cap) ==
  /\ pc = "idle"
  /\ Len(hist) < cap
  /\ \E x \in inputs :
       /\ arg' = x
       /\ X' = AsType(x)
       /\ pre' = [Xtrain |-> Xtrain, cov |-> cov, arg |-> x]
  /\ pc' = "check"
  /\ S' = NoMatrix
  /\ i' = 0
  /\ k' = 0
  /\ wr' = <<>>
  /\ steps' = <<>>
  /\ solved' = <<>>
  /\ UNCHANGED <<Xtrain, cov, eig, hist>>

\* line 32, the input is not two-dimensional: AssertionError
CheckFails ==
  /\ pc = "check"
  /\ ~IsTable(X)
  /\ Finish("AssertionError", NoMatrix)
  /\ UNCHANGED <<Xtrain, cov, arg, X, S, i, k, eig, pre, wr, steps, solved>>

\* lines 32-37
CheckPasses ==
  /\ pc = "check"
  /\ IsTable(X)
  /\ Xtrain' = X
  /\ S' = Zeros(NumCols(X))
  /\ i' = 1
  /\ pc' = "var"
  /\ UNCHANGED <<cov, arg, X, k, eig, pre, hist, wr, steps, solved>>

\* lines 40-46: one turn of the variance loop
VarStep ==
  /\ pc = "var"
  /\ S' = SetCell(S, i, i, ColumnVariance(X, i))
  /\ steps' = Append(steps, "var")
  /\ IF i < NumCols(X)
     THEN i' = i + 1 /\ pc' = "var" /\ k' = k
     ELSE i' = i /\ k' = 1
          /\ pc' = IF UpperIdx(NumCols(X)) = <<>> THEN "mirror" ELSE "pairs"
  /\ UNCHANGED <<Xtrain, cov, arg, X, eig, pre, hist, wr, solved>>

\* the eigenvalue routine is a function of its input: a value returned
\* before for the same arguments is returned again
Consistent(memo, key, v) == \A e \in memo : e[1] = key => e[2] = v
Remember(memo, key, v, vals) ==
  IF Cardinality(vals) > 1 THEN memo \cup {<<key, v>>} ELSE memo

\* lines 57-61 for the pair (a, b): find_cov_ij raises, and fit with it, or
\* the cell is stored
PairStepWith(a, b, c, key) ==
  IF c.err # ""
  THEN /\ Finish(c.err, NoMatrix)
       /\ solved' = Append(solved, [i |-> a, j |-> b, S_ii |-> key[2], S_jj |-> key[3],
                                    m |-> c.m, roots |-> c.roots, err |-> c.err,
                                    ret |-> NaN])
       /\ UNCHANGED <<S, k, eig, wr, steps>>
  ELSE /\ \E v \in c.vals :
            /\ Consistent(eig, key, v)
            /\ S' = SetCell(S, a, b, v)
            /\ eig' = Remember(eig, key, v, c.vals)
            /\ solved' = IF c.called
                         THEN Append(solved, [i |-> a, j |-> b, S_ii |-> key[2],
                                              S_jj |-> key[3], m |-> c.m,
                                              roots |-> c.roots, err |-> "",
                                              ret |-> v])
                         ELSE solved
       /\ wr' = Append(wr, <<a, b>>)
       /\ steps' = Append(steps, "pair")
       /\ k' = k + 1
       /\ pc' = IF PairsDone(k, Len(UpperIdx(NumCols(X)))) THEN "mirror" ELSE "pairs"
       /\ UNCHANGED hist
PairStepAt(a, b) ==
  PairStepWith(a, b, PairCell(X, S, a, b), <<PairRows(X, a, b), S[a][a], S[b][b]>>)

\* lines 50-61: one turn of the pair loop
PairStep ==
  /\ pc = "pairs"
  /\ PairStepAt(UpperIdx(NumCols(X))[k][1], UpperIdx(NumCols(X))[k][2])
  /\ UNCHANGED <<Xtrain, cov, arg, X, i, pre>>

\* line 63
Mirror ==
  /\ pc = "mirror"
  /\ S' = AddTranspose(S)
  /\ steps' = Append(steps, "mirror")
  /\ i' = 1
  /\ pc' = "halve"
  /\ UNCHANGED <<Xtrain, cov, arg, X, k, eig, pre, hist, wr, solved>>

\* lines 66-67: one turn of the halving loop
HalveStep ==
  /\ pc = "halve"
  /\ S' = HalveCell(S, i)
  /\ steps' = Append(steps, "halve")
  /\ IF i < NumCols(X) THEN i' = i + 1 /\ pc' = "halve"
                       ELSE i' = i /\ pc' = "store"
  /\ UNCHANGED <<Xtrain, cov, arg, X, k, eig, pre, hist, wr, solved>>

\* line 69
Store ==
  /\ pc = "store"
  /\ cov' = S
  /\ pc' = "return"
  /\ UNCHANGED <<Xtrain, arg, X, S, i, k, eig, pre, hist, wr, steps, solved>>

\* line 71
Return ==
  /\ pc = "return"
  /\ Finish("", S)
  /\ UNCHANGED <<Xtrain, cov, arg, X, S, i, k, eig, pre, wr, steps, solved>>

Body ==
  \/ CheckFails
  \/ CheckPasses
  \/ VarStep
  \/ PairStep
  \/ Mirror
  \/ HalveStep
  \/ Store
  \/ Return

\* one DPERS object on which fit is called up to MaxCalls times
CallObj == Call(Inputs(NRowsObj, 1, NFeatObj, 0, SmallVal), MaxCalls)
Next == CallObj \/ Body
Spec == Init /\ [][Next]_vars

\* one fit call on a two-feature dataset
CallPair == Call(Inputs(NRows, 2, 2, -NegVal, MaxVal), 1)
NextPair == CallPair \/ Body
SpecPair == Init /\ [][NextPair]_vars

\* one fit call on a dataset of up to NFeat features
CallAsm == Call(Inputs(NRowsAsm, 1, NFeat, 0, SmallVal), 1)
NextAsm == CallAsm \/ Body
SpecAsm == Init /\ [][NextAsm]_vars

----------------------------------------------------------------------------
(* Reference quantities the properties are stated with.                    *)

\* the plain sample mean and (co)variance, normalised by the number of rows
MeanOf(xs) == FDiv(FSum(xs), Q(Len(xs)))
RECURSIVE SumXY(_, _)
SumXY(xs, ys) ==
  IF xs = <<>> THEN Zero
  ELSE FAdd(FMul(Head(xs), Head(ys)), SumXY(Tail(xs), Tail(ys)))
SampleCov(xs, ys) ==
  FSub(FDiv(SumXY(xs, ys), Q(Len(xs))), FMul(MeanOf(xs), MeanOf(ys)))
SampleVar(xs) == SampleCov(xs, xs)

\* the entries of column c that are not missing
Observed(T, c) == SelectSeq(Column(T.a, c), NotNaN)
FullyObserved(T) == \A r \in 1..NumRows(T) : ~RowHasNaN(T.a[r])
ZeroMean(T, c) == FSum(Column(T.a, c)) = Zero
\* the rows where columns a and b are both observed
JointRows(T, a, b) == SelectSeq(PairRows(T, a, b), RowComplete)

TwoDim(T) == T.ndim = 2
Returned(h) == h.err = ""
NonZeroFinite(x) == IsFinite(x) /\ x # Zero
Finished == pc = "idle" /\ hist # <<>>
LastCall == hist[Len(hist)]

----------------------------------------------------------------------------
(* Properties of find_cov_ij (checked under SpecPair).                     *)

\* C1: in find_cov_ij, whenever m >= 1 rows are jointly observed and some
\* candidate root has scond = S_jj - r^2/S_ii > 0, the root returned by the
\* argmax has scond > 0: an infeasible candidate is never returned when a
\* feasible one exists.
C1_FeasibleReturned ==
  \A n \in 1..Len(solved) :
    ( /\ solved[n].err = ""
      /\ solved[n].m >= 1
      /\ \E l \in 1..Len(solved[n].roots) :
           FGt(Scond(solved[n].roots[l], solved[n].S_ii, solved[n].S_jj), Zero) )
    => FGt(Scond(solved[n].ret, solved[n].S_ii, solved[n].S_jj), Zero)

\* C3: when a pair of features has non-zero, defined variances and no
\* jointly observed row, fit completes without raising and returns the whole
\* matrix.
C3_NoJointRows ==
  (Finished /\ TwoDim(LastCall.arg)) =>
    \A a, b \in 1..NumCols(LastCall.arg) :
      ( /\ a < b
        /\ NonZeroFinite(SampleVar(Observed(LastCall.arg, a)))
        /\ NonZeroFinite(SampleVar(Observed(LastCall.arg, b)))
        /\ JointRows(LastCall.arg, a, b) = <<>> )
      => (Returned(LastCall) /\ Len(LastCall.val) = NumCols(LastCall.arg))

\* C5, as stated: for a fully observed dataset, every off-diagonal entry of
\* the result is the plain sample covariance of its two columns and every
\* diagonal entry the plain sample variance of its column.
C5_FullyObservedSampleCovariance ==
  \A n \in 1..Len(hist) :
    (TwoDim(hist[n].arg) /\ FullyObserved(hist[n].arg)) =>
      /\ Returned(hist[n])
      /\ \A a, b \in 1..NumCols(hist[n].arg) :
           hist[n].val[a][b] = SampleCov(Column(hist[n].arg.a, a), Column(hist[n].arg.a, b))

\* C5, amended: for a fully observed dataset, fit returns; every diagonal
\* entry is the plain sample variance of its column; the entry of two
\* columns that both have zero mean and non-zero variance is their plain
\* sample covariance; the entry of a pair with a constant column is NaN.
C5_ZeroMeanSampleCovariance ==
  \A n \in 1..Len(hist) :
    (TwoDim(hist[n].arg) /\ FullyObserved(hist[n].arg)) =>
      /\ Returned(hist[n])
      /\ \A a \in 1..NumCols(hist[n].arg) :
           hist[n].val[a][a] = SampleVar(Column(hist[n].arg.a, a))
      /\ \A a, b \in 1..NumCols(hist[n].arg) :
           (a # b) =>
             IF \/ SampleVar(Column(hist[n].arg.a, a)) = Zero
                \/ SampleVar(Column(hist[n].arg.a, b)) = Zero
             THEN IsNaN(hist[n].val[a][b])
             ELSE (ZeroMean(hist[n].arg, a) /\ ZeroMean(hist[n].arg, b)) =>
                    hist[n].val[a][b] =
                      SampleCov(Column(hist[n].arg.a, a), Column(hist[n].arg.a, b))

\* a fit call has returned on a fully observed dataset of two zero-mean
\* columns that are correlated, but not perfectly, and the entry of the pair
\* is their sample covariance
C5_Witness ==
  /\ Finished
  /\ TwoDim(LastCall.arg)
  /\ FullyObserved(LastCall.arg)
  /\ Returned(LastCall)
  /\ ZeroMean(LastCall.arg, 1)
  /\ ZeroMean(LastCall.arg, 2)
  /\ NonZeroFinite(LastCall.val[1][2])
  /\ LastCall.val[1][2] = SampleCov(Column(LastCall.arg.a, 1), Column(LastCall.arg.a, 2))
  /\ FLt(Sq(LastCall.val[1][2]), FMul(LastCall.val[1][1], LastCall.val[2][2]))

----------------------------------------------------------------------------
(* Properties of the assembly of the matrix (checked under SpecAsm).       *)

\* C2: when a feature k of the dataset has all its values missing, fit
\* returns a matrix whose row k and column k are NaN throughout, and
\* find_cov_ij is not called for any pair that involves k.
C2_AllMissingFeature ==
  (Finished /\ TwoDim(LastCall.arg)) =>
    \A c \in 1..NumCols(LastCall.arg) :
      (Observed(LastCall.arg, c) = <<>>) =>
        /\ Returned(LastCall)
        /\ \A d \in 1..NumCols(LastCall.arg) :
             IsNaN(LastCall.val[c][d]) /\ IsNaN(LastCall.val[d][c])
        /\ \A n \in 1..Len(solved) : solved[n].i # c /\ solved[n].j # c

\* C4, as stated: the returned matrix satisfies result[i,j] == result[j,i]
\* for all i and j, the comparison being that of floats.
C4_SymmetricByEquality ==
  \A n \in 1..Len(hist) :
    Returned(hist[n]) =>
      \A a, b \in 1..Len(hist[n].val) : FEq(hist[n].val[a][b], hist[n].val[b][a])

\* C4, amended: in the returned matrix the cells (i,j) and (j,i) hold the
\* same number or are both NaN, for all i and j.
C4_SymmetricOrBothNaN ==
  \A n \in 1..Len(hist) :
    Returned(hist[n]) =>
      \A a, b \in 1..Len(hist[n].val) : hist[n].val[a][b] = hist[n].val[b][a]

\* a fit call has returned a matrix of NFeat features with a cell above the
\* diagonal that is a non-zero number and one that is NaN
C4_Witness ==
  /\ Finished
  /\ Returned(LastCall)
  /\ Len(LastCall.val) >= 3
  /\ \E a, b \in 1..Len(LastCall.val) : a < b /\ NonZeroFinite(LastCall.val[a][b])
  /\ \E a, b \in 1..Len(LastCall.val) : a < b /\ IsNaN(LastCall.val[a][b])

\* C6: every diagonal entry of the matrix fit returns is the variance of its
\* column over the entries that are not missing (once: neither doubled nor
\* halved twice), for any number of features.
C6_DiagonalIsVariance ==
  \A n \in 1..Len(hist) :
    Returned(hist[n]) =>
      \A a \in 1..NumCols(hist[n].arg) :
        hist[n].val[a][a] = SampleVar(Observed(hist[n].arg, a))

\* a fit call has returned on a dataset of three features where a column
\* with a missing entry has a non-zero variance, next to a cell off the
\* diagonal that is a non-zero number
C6_Witness ==
  /\ Finished
  /\ Returned(LastCall)
  /\ NumCols(LastCall.arg) >= 3
  /\ \E a \in 1..NumCols(LastCall.arg) :
       /\ Len(Observed(LastCall.arg, a)) < NumRows(LastCall.arg)
       /\ NonZeroFinite(LastCall.val[a][a])
  /\ \E a, b \in 1..Len(LastCall.val) : a # b /\ NonZeroFinite(LastCall.val[a][b])

\* C9: the assembly goes fill, mirror, halve.  The pair loop writes each
\* cell (i,j), i < j, once and no other cell: until the mirroring the strict
\* lower triangle is 0 and the diagonal is the variance.  The matrix is
\* added to its transpose once, after the variances and all p(p-1)/2 pairs,
\* and the diagonal is halved only after that addition.
C9_FillMirrorHalve ==
  (pc \notin {"idle", "check"}) =>
    /\ \A n \in 1..Len(wr) :
         /\ 1 <= wr[n][1] /\ wr[n][1] < wr[n][2] /\ wr[n][2] <= NumCols(X)
         /\ \A l \in 1..Len(wr) : l # n => wr[l] # wr[n]
    /\ \A n, l \in 1..Len(steps) :
         /\ (steps[n] \in {"var", "pair"} /\ steps[l] = "mirror") => n < l
         /\ (steps[n] = "mirror" /\ steps[l] = "mirror") => n = l
         /\ (steps[n] = "mirror" /\ steps[l] = "halve") => n < l
    /\ \A l \in 1..Len(steps) :
         steps[l] = "halve" => \E n \in 1..Len(steps) : steps[n] = "mirror"
    /\ (\E l \in 1..Len(steps) : steps[l] = "mirror") =>
         2 * Len(wr) = NumCols(X) * (NumCols(X) - 1)
    /\ (\A l \in 1..Len(steps) : steps[l] # "mirror") =>
         /\ \A a, b \in 1..NumCols(X) : a > b => S[a][b] = Zero
         /\ (pc # "var") =>
              \A a \in 1..NumCols(X) : S[a][a] = SampleVar(Observed(X, a))

\* the halving loop has ended on a dataset of three features: the three
\* pairs were written, one of them with a non-zero number
C9_Witness ==
  /\ pc = "store"
  /\ NumCols(X) >= 3
  /\ Len(wr) = 3
  /\ \E a, b \in 1..NumCols(X) : a < b /\ NonZeroFinite(S[a][b])

----------------------------------------------------------------------------
(* Properties of the DPERS object over its calls (checked under Spec).     *)

\* C7: a fit call on an input that is not two-dimensional fails with the
\* error of the input check (AssertionError) before any variance or
\* covariance is computed, and leaves Xtrain and cov as they were before
\* the call.
C7_NotTwoDimensionalFails ==
  /\ \A n \in 1..Len(hist) :
       ~TwoDim(hist[n].arg) =>
         /\ hist[n].err = "AssertionError"
         /\ hist[n].post = hist[n].pre
         /\ hist[n].steps = <<>>
  /\ (pc # "idle" /\ ~TwoDim(arg)) =>
       /\ pc = "check"
       /\ <<Xtrain, cov>> = <<pre.Xtrain, pre.cov>>
       /\ steps = <<>> /\ solved = <<>>

\* a fit call on an input that is not two-dimensional has failed on an
\* object that held a dataset and its covariance matrix
C7_Witness ==
  /\ Finished
  /\ ~TwoDim(LastCall.arg)
  /\ LastCall.err = "AssertionError"
  /\ Xtrain # None
  /\ cov # NoMatrix

\* C8: two fit calls on the same input end the same way, with the same
\* matrix, whatever calls were made before and between them, and no fit call
\* changes its argument.
C8_SameInputSameOutput ==
  /\ \A n, l \in 1..Len(hist) :
       hist[n].arg = hist[l].arg =>
         (hist[n].err = hist[l].err /\ hist[n].val = hist[l].val)
  /\ \A n \in 1..Len(hist) : hist[n].after = hist[n].arg

\* fit has returned twice on the same dataset, with a non-zero number off
\* the diagonal, and a call between the two has raised in find_cov_ij
C8_Witness ==
  /\ Len(hist) = 3
  /\ hist[1].arg = hist[3].arg
  /\ Returned(hist[1]) /\ Returned(hist[3])
  /\ Len(hist[1].val) = 2
  /\ NonZeroFinite(hist[1].val[1][2])
  /\ hist[2].err \notin {"", "AssertionError"}

\* C10: between fit calls, including after calls that raised, either Xtrain
\* and cov are both None or cov is the matrix a fit call returned for the
\* dataset held in Xtrain.
C10_AttributesConsistent ==
  (pc = "idle") =>
    \/ (Xtrain = None /\ cov = NoMatrix)
    \/ \E n \in 1..Len(hist) :
         hist[n].arg = Xtrain /\ Returned(hist[n]) /\ hist[n].val = cov
====
